---- MODULE Spec2Model ----
(***************************************************************************)
(* TariffTracker (src/app.py): a Streamlit script that acquires the text   *)
(* of earnings-call transcripts (FMP API or uploaded PDFs), sends it to    *)
(* the DeepSeek chat API for structured extraction, keeps the per-company  *)
(* results in st.session_state and renders them as reports, a comparison   *)
(* table and HTML / Word exports.                                          *)
(*                                                                         *)
(* Python values are modelled as tagged records: None, str (a sequence of  *)
(* tokens, each a special character or a chunk of plain text), list and    *)
(* dict (a sequence of key/value items, in insertion order).               *)
(***************************************************************************)
EXTENDS Integers, Sequences, FiniteSets, Bags, TLC

\* ------------------------------------------------------------------ bounds
MaxBatch == 2
MaxRuns == 2
MaxPages == 5

\* ------------------------------------------------------- Python value layer
PyNone == [t |-> "none"]
PyStr(s) == [t |-> "str", v |-> s]
PyList(xs) == [t |-> "list", v |-> xs]
PyDict(items) == [t |-> "dict", v |-> items]
Item(k, v) == [k |-> k, v |-> v]

\* bool(v): None, "", [] and {} are falsy
Truthy(v) == IF v.t = "none" THEN FALSE ELSE Len(v.v) > 0

HasKey(items, k) == \E i \in 1..Len(items) : items[i].k = k

\* dict.get(k, default) on the item sequence of a dict
DictGet(items, k, default) ==
  IF HasKey(items, k)
  THEN items[CHOOSE i \in 1..Len(items) : items[i].k = k].v
  ELSE default

\* d[k] = v : an existing key keeps its position, a new key is appended
DictSet(items, k, v) ==
  IF HasKey(items, k)
  THEN [i \in 1..Len(items) |-> IF items[i].k = k THEN Item(k, v) ELSE items[i]]
  ELSE Append(items, Item(k, v))

Keys(items) == [i \in 1..Len(items) |-> items[i].k]

Whitespace == {" ", "\n"}

\* not s.strip()
IsBlank(s) == \A i \in 1..Len(s) : s[i] \in Whitespace

\* ------------------------------------------------------ analysis examples
Fields == <<"company_name", "quarterly_impact", "forward_guidance_impact",
            "qualitative_impacts", "mitigation_strategies",
            "overall_sentiment", "summary">>

E_cogs == PyDict(<<Item("metric", PyStr(<<"COGS">>)),
                   Item("impact_value", PyStr(<<"+5%">>))>>)
E_margin == PyDict(<<Item("metric", PyStr(<<"Margin">>)),
                     Item("impact_value", PyStr(<<"-20bps">>)),
                     Item("unit", PyNone)>>)
E_markup == PyDict(<<Item("metric", PyStr(<<"<", "b", ">">>)),
                     Item("impact_value", PyStr(<<"1", "&", "2">>))>>)

\* a complete analysis in the list form the prompt asks for
A_full == PyDict(<<Item("company_name", PyStr(<<"Acme">>)),
                   Item("quarterly_impact", PyList(<<E_cogs>>)),
                   Item("forward_guidance_impact", PyList(<<E_margin>>)),
                   Item("qualitative_impacts", PyList(<<PyStr(<<"q1">>), PyStr(<<"q2">>)>>)),
                   Item("mitigation_strategies", PyList(<<PyStr(<<"A">>), PyStr(<<"B">>)>>)),
                   Item("overall_sentiment", PyStr(<<"Negative">>)),
                   Item("summary", PyStr(<<"sum">>))>>)

\* "If a specific piece of information is not mentioned, use null" (prompt, line 139)
A_nullSentiment == PyDict(<<Item("company_name", PyStr(<<"Acme">>)),
                            Item("quarterly_impact", PyList(<<>>)),
                            Item("overall_sentiment", PyNone),
                            Item("summary", PyStr(<<"sum">>))>>)

\* ------------------------------------------------------- call results
\* what one call of a function did: its return value, the exception that
\* escaped it ("" when none), the notice it showed and the network requests
\* it issued
Ret(v, notice, n) == [ret |-> v, raised |-> "", notice |-> notice, requests |-> n]
Raise(exc, n) == [ret |-> PyNone, raised |-> exc, notice |-> <<"exception", exc>>, requests |-> n]
NoNotice == <<"", "">>

\* ------------------------------------------------------- text acquisition
FmpTexts == {<<"t1">>}

\* what requests.get can bring back for a transcript request
FmpResponses ==
  {[kind |-> "transport"], [kind |-> "status"]}
  \cup {[kind |-> "json", body |-> b] : b \in
          {PyList(<<>>),
           PyList(<<PyDict(<<>>)>>),
           PyList(<<PyNone>>),
           PyDict(<<Item("Error Message", PyStr(<<"Invalid API KEY">>))>>)}
          \cup {PyList(<<PyDict(<<Item("content", PyStr(t))>>)>>) : t \in FmpTexts}}

\* body of get_transcript_from_fmp (lines 96-114) for the response r
fmp_body(key_present, r) ==
  IF ~key_present THEN Ret(PyNone, <<"Error: FMP_API_KEY not found in secrets.", "">>, 0)
  ELSE IF r.kind = "transport"
  THEN Ret(PyNone, <<"Error fetching data from FMP API", "ConnectionError">>, 1)
  ELSE IF r.kind = "status"
  THEN Ret(PyNone, <<"Error fetching data from FMP API", "HTTPError">>, 1)
  ELSE LET data == r.body IN
    IF ~Truthy(data) THEN Ret(PyNone, <<"No transcript content found", "">>, 1)
    ELSE IF data.t = "dict"
    THEN \* data[0] on a dict without the key 0
         Ret(PyNone, <<"Error parsing FMP API response", "KeyError">>, 1)
    ELSE LET first == data.v[1] IN
      IF first.t # "dict" THEN Raise("TypeError", 1)
      ELSE IF HasKey(first.v, "content")
      THEN Ret(DictGet(first.v, "content", PyNone), NoNotice, 1)
      ELSE Ret(PyNone, <<"No transcript content found", "">>, 1)

\* a call that issues no request gets no response
NoResponse == [kind |-> "none"]

\* st.cache_data(ttl=3600): a live entry answers the call without running the
\* body (its notice is replayed); the body's return value (None included) is
\* stored unless it raised
Replayed == <<"replayed", "">>
CacheHas(cache, key) == \E e \in cache : e.k = key
CacheGet(cache, key) == CHOOSE e \in cache : e.k = key
\* a cache that keeps only the calls that brought a value back
CachePutValues(cache, key, res) ==
  IF res.raised # "" \/ res.ret = PyNone THEN cache
  ELSE cache \cup {[k |-> key, v |-> res.ret]}

\* what the decorator stores after the body has run
CachePut(cache, key, res) ==
  IF res.raised # "" THEN cache
  ELSE cache \cup {[k |-> key, v |-> res.ret]}

\* the responses a call can meet: none when it is answered from the cache
\* or returns before requests.get (line 96)
FmpReplies(cache, key_present, key) ==
  IF CacheHas(cache, key) \/ ~key_present THEN {NoResponse} ELSE FmpResponses

\* get_transcript_from_fmp behind st.cache_data (lines 94-114)
get_transcript_from_fmp(cache, key_present, ticker, y, q, r) ==
  LET key == <<ticker, y, q>> IN
  IF CacheHas(cache, key)
  THEN Ret(CacheGet(cache, key).v, Replayed, 0)
  ELSE fmp_body(key_present, r)

\* a page of an uploaded PDF either yields its text or fails to parse
PageKinds == {"text", "fail"}
PageText == <<"p1", "p2", "p3", "p4", "p5", "p6">>
RECURSIVE SeqsUpTo(_, _)
SeqsUpTo(S, n) ==
  IF n = 0 THEN {<<>>}
  ELSE LET shorter == SeqsUpTo(S, n - 1) IN
       shorter \cup {Append(s, x) : s \in {t \in shorter : Len(t) = n - 1}, x \in S}
Docs == {[opens |-> FALSE, pages |-> <<>>]}
        \cup {[opens |-> TRUE, pages |-> ps] : ps \in SeqsUpTo(PageKinds, MaxPages)}

\* the documents uploaded in a batch: one that does not open, one without
\* pages, one whose page has text and one whose page fails to parse
UploadedDocs == {[opens |-> FALSE, pages |-> <<>>]}
                \cup {[opens |-> TRUE, pages |-> ps] : ps \in {<<>>, <<"text">>, <<"fail">>}}

\* the loop of lines 121-122 from page i on: the first page that raises
\* leaves the loop and the try block
RECURSIVE read_pages(_, _, _)
read_pages(pages, i, full_text) ==
  IF i > Len(pages) THEN [text |-> full_text, failed |-> 0]
  ELSE IF pages[i] = "fail" THEN [text |-> full_text, failed |-> i]
  ELSE read_pages(pages, i + 1, full_text \o <<PageText[i], "\n">>)

\* extract_text_from_pdf (lines 116-125)
extract_text_from_pdf(doc) ==
  IF ~doc.opens
  THEN Ret(PyStr(<<>>), <<"An error occurred while reading", "open">>, 0)
  ELSE LET r == read_pages(doc.pages, 1, <<>>) IN
       IF r.failed > 0
       THEN Ret(PyStr(r.text), <<"An error occurred while reading", "page">>, 0)
       ELSE Ret(PyStr(r.text), NoNotice, 0)

\* -------------------------------------------------------- extraction client
\* the content string of the reply: JSON text of a value, or not JSON
JsonText(a) == [t |-> "str", json |-> TRUE, val |-> a]
NotJsonText == [t |-> "str", json |-> FALSE, val |-> PyNone]

PipelineAnalyses == {A_full, A_nullSentiment}

Envelope(content) ==
  PyDict(<<Item("choices", PyList(<<PyDict(<<Item("message",
           PyDict(<<Item("content", content)>>))>>)>>))>>)

DsResponses ==
  {[kind |-> "transport"], [kind |-> "status"], [kind |-> "notjson"]}
  \cup {[kind |-> "json", body |-> b] : b \in
          {PyDict(<<Item("error", PyStr(<<"x">>))>>),
           PyDict(<<Item("choices", PyList(<<>>))>>),
           PyDict(<<Item("choices", PyList(<<PyDict(<<>>)>>))>>),
           Envelope(PyNone),
           Envelope(NotJsonText)}
          \cup {Envelope(JsonText(a)) : a \in PipelineAnalyses}}

\* the failure mode a reply stands for
DsMode(r) ==
  IF r.kind \in {"transport", "status"} THEN r.kind
  ELSE IF r.kind = "notjson" THEN "shape"
  ELSE IF r.body \in {Envelope(JsonText(a)) : a \in PipelineAnalyses} THEN "ok"
  ELSE "shape"

\* body of analyze_text_with_deepseek (lines 129-165) for the reply r
ds_body(key_present, text_content, r) ==
  IF ~key_present THEN Ret(PyNone, <<"Error: DEEPSEEK_API_KEY not found in secrets.", "">>, 0)
  ELSE IF text_content.t = "none" \/ IsBlank(text_content.v)
  THEN Ret(PyNone, <<"Input text is empty. Cannot perform analysis.", "">>, 0)
  ELSE IF r.kind = "transport"
  THEN Ret(PyNone, <<"Error calling DeepSeek API", "ConnectionError">>, 1)
  ELSE IF r.kind = "status"
  THEN Ret(PyNone, <<"Error calling DeepSeek API", "HTTPError">>, 1)
  ELSE IF r.kind = "notjson"
  THEN \* response.json() raises requests.exceptions.JSONDecodeError,
       \* a RequestException: the first handler takes it
       Ret(PyNone, <<"Error calling DeepSeek API", "JSONDecodeError">>, 1)
  ELSE LET body == r.body.v IN
    IF ~HasKey(body, "choices")
    THEN Ret(PyNone, <<"Error parsing DeepSeek API JSON response", "KeyError">>, 1)
    ELSE LET choices == DictGet(body, "choices", PyNone).v IN
      IF Len(choices) = 0 THEN Raise("IndexError", 1)
      ELSE IF ~HasKey(choices[1].v, "message")
      THEN Ret(PyNone, <<"Error parsing DeepSeek API JSON response", "KeyError">>, 1)
      ELSE LET message == DictGet(choices[1].v, "message", PyNone).v IN
        IF ~HasKey(message, "content")
        THEN Ret(PyNone, <<"Error parsing DeepSeek API JSON response", "KeyError">>, 1)
        ELSE LET content_str == DictGet(message, "content", PyNone) IN
          IF content_str.t # "str" THEN Raise("TypeError", 1)
          ELSE IF ~content_str.json
          THEN Ret(PyNone, <<"Error parsing DeepSeek API JSON response", "JSONDecodeError">>, 1)
          ELSE Ret(content_str.val, NoNotice, 1)

\* the replies a call can meet: none when it is answered from the cache or
\* returns before requests.post (lines 129-134)
DsReplies(cache, key_present, text_content) ==
  IF CacheHas(cache, text_content) \/ ~key_present
     \/ text_content.t = "none" \/ IsBlank(text_content.v)
  THEN {NoResponse}
  ELSE DsResponses

\* analyze_text_with_deepseek behind st.cache_data (lines 127-165)
analyze_text_with_deepseek(cache, key_present, text_content, r) ==
  IF CacheHas(cache, text_content)
  THEN Ret(CacheGet(cache, text_content).v, Replayed, 0)
  ELSE ds_body(key_present, text_content, r)

\* ---------------------------------------------------------------- rendering
\* Text on its way to the page is a sequence of tokens that remember where
\* they come from: "lit" a literal of the script, "key" a JSON key, "data" a
\* piece of a value of the analysis, "esc" the entity html.escape put in the
\* place of a special character.
Special == {"<", ">", "&", "\"", "'"}
Entity(c) ==
  CASE c = "&" -> "&amp;"
    [] c = "<" -> "&lt;"
    [] c = ">" -> "&gt;"
    [] c = "\"" -> "&quot;"
    [] c = "'" -> "&#x27;"

Lit(s) == <<[src |-> "lit", ch |-> s]>>
Data(s) == [i \in 1..Len(s) |-> [src |-> "data", ch |-> s[i]]]
Chars(toks) == [i \in 1..Len(toks) |-> toks[i].ch]

\* str(v) as an f-string does it
Format(v) ==
  IF v.t = "str" THEN Data(v.v)
  ELSE IF v.t = "none" THEN Data(<<"None">>)
  ELSE Data(<<"repr">>)

\* html.escape(s) on the tokens of a str
html_escape(toks) ==
  [i \in 1..Len(toks) |->
     IF toks[i].src = "data" /\ toks[i].ch \in Special
     THEN [src |-> "esc", ch |-> Entity(toks[i].ch)]
     ELSE toks[i]]

RECURSIVE Concat(_)
Concat(ss) == IF ss = <<>> THEN <<>> ELSE Head(ss) \o Concat(Tail(ss))

RECURSIVE Join(_, _)
\* sep.join(parts)
Join(sep, parts) ==
  IF parts = <<>> THEN <<>>
  ELSE IF Len(parts) = 1 THEN parts[1]
  ELSE parts[1] \o sep \o Join(sep, Tail(parts))

\* text handed to st.header / st.warning, which render Markdown and do not
\* let HTML through
Markdown(toks) == [i \in 1..Len(toks) |-> [src |-> "md", ch |-> toks[i].ch]]

\* what a rendering function did: the exception that escaped it ("" when
\* none) and the text it put on the page or returned
Out(toks) == [raised |-> "", out |-> toks]
Fail(exc) == [raised |-> exc, out |-> <<>>]

Placeholder == "No specific financial impacts from tariffs were mentioned"

RECURSIVE Columns(_, _)
\* pd.DataFrame(list of dicts).columns: the keys in order of first appearance
Columns(rows, seen) ==
  IF rows = <<>> THEN seen
  ELSE LET ks == Keys(Head(rows).v)
           new == SelectSeq(ks, LAMBDA k : \A j \in 1..Len(seen) : seen[j] # k)
       IN Columns(Tail(rows), seen \o new)

Rename(col) ==
  CASE col = "metric" -> "Metric"
    [] col = "impact_value" -> "Impact"
    [] col = "unit" -> "Unit"
    [] col = "source_quote" -> "Source Quote"
    [] OTHER -> col

\* a cell after fillna('NA'): a missing or None value reads NA
Cell(row, col) ==
  LET v == DictGet(row.v, col, PyNone) IN
  IF v.t = "none" THEN Lit("NA") ELSE Format(v)

\* DataFrame(impacts).rename(...).fillna('NA') as header and rows of cells
Frame(impacts) ==
  LET cols == Columns(impacts, <<>>) IN
  [header |-> [j \in 1..Len(cols) |-> Rename(cols[j])],
   rows |-> [i \in 1..Len(impacts) |-> [j \in 1..Len(cols) |-> Cell(impacts[i], cols[j])]]]

\* df.to_html(index=False, escape=False, border=0)
to_html(frame) ==
  Lit("<table><thead><tr>")
  \o Concat([j \in 1..Len(frame.header) |->
               Lit("<th>") \o <<[src |-> "key", ch |-> frame.header[j]]>> \o Lit("</th>")])
  \o Lit("</tr></thead><tbody>")
  \o Concat([i \in 1..Len(frame.rows) |->
               Lit("<tr>")
               \o Concat([j \in 1..Len(frame.rows[i]) |->
                            Lit("<td>") \o frame.rows[i][j] \o Lit("</td>")])
               \o Lit("</tr>")])
  \o Lit("</tbody></table>")

\* display_impact_table (lines 187-214)
display_impact_table(title, impacts) ==
  IF ~Truthy(impacts)
  THEN Lit("<div class=report-card><h3>") \o Lit(title) \o Lit("</h3><p><i>")
       \o Lit(Placeholder) \o Lit(" in the document.</i></p></div>")
  ELSE LET rows == IF impacts.t = "dict" THEN <<impacts>> ELSE impacts.v IN
       Lit("<div class=report-card><h3>") \o Lit(title) \o Lit("</h3>")
       \o to_html(Frame(rows)) \o Lit("</div>")

\* lines 233-244: the sentence about the mitigation strategies
strategy_sentence(strategies) ==
  LET n == Len(strategies)
      strategy_text ==
        IF n = 1 THEN Format(strategies[1])
        ELSE IF n = 2 THEN Format(strategies[1]) \o Lit(" and ") \o Format(strategies[2])
        ELSE Join(Lit(", "), [i \in 1..(n - 1) |-> Format(strategies[i])])
             \o Lit(", and ") \o Format(strategies[n])
  IN Lit("To manage these impacts, the company is employing several strategies, including ")
     \o strategy_text \o Lit(".")

\* display_tariff_report (lines 168-252); st.header and st.warning take
\* Markdown, the cards go to the page as raw HTML
display_tariff_report(company_name, analysis) ==
  IF ~Truthy(analysis)
  THEN Out(Lit("[warning] No analysis data to display for ")
           \o Markdown(Data(<<company_name>>)))
  ELSE
    LET a == analysis.v
        sentiment == DictGet(a, "overall_sentiment", PyStr(<<"N/A">>))
        summary == DictGet(a, "summary", PyStr(<<"No summary provided.">>))
        name == DictGet(a, "company_name", PyStr(<<company_name>>))
        qualitative_impacts == DictGet(a, "qualitative_impacts", PyNone)
        strategies == DictGet(a, "mitigation_strategies", PyNone)
    IN
    IF sentiment.t # "str" \/ summary.t # "str"
    THEN Fail("AttributeError")
    ELSE Out(
      Lit("[header] Tariff Impact Analysis: ")
      \o Markdown(Format(name))
      \o Lit("<div class=report-card><h3>Executive Summary</h3><p><strong>Overall Sentiment on Tariffs:</strong> ")
      \o html_escape(Data(sentiment.v)) \o Lit("</p><p>")
      \o html_escape(Data(summary.v)) \o Lit("</p></div>")
      \o display_impact_table("Quarterly Financial Impact",
                              DictGet(a, "quarterly_impact", PyNone))
      \o display_impact_table("Forward Guidance Impact",
                              DictGet(a, "forward_guidance_impact", PyNone))
      \o (IF Truthy(qualitative_impacts)
          THEN Lit("<div class=report-card><h3>Qualitative Impacts</h3><p>")
               \o html_escape(Join(Lit(" "),
                    [i \in 1..Len(qualitative_impacts.v) |-> Data(qualitative_impacts.v[i].v)]))
               \o Lit("</p></div>")
          ELSE <<>>)
      \o (IF Truthy(strategies)
          THEN Lit("<div class=report-card><h3>Mitigation Strategies</h3><p>")
               \o html_escape(strategy_sentence(strategies.v))
               \o Lit("</p></div>")
          ELSE <<>>))

\* "; ".join(f"{i.get('metric','N/A')}: {i.get('impact_value','N/A')}" ...)
impact_summary(impacts) ==
  Join(Lit("; "),
       [i \in 1..Len(impacts) |->
          Format(DictGet(impacts[i].v, "metric", PyStr(<<"N/A">>))) \o Lit(": ")
          \o Format(DictGet(impacts[i].v, "impact_value", PyStr(<<"N/A">>)))])

\* analysis.get(key, []) followed by the isinstance(..., dict) wrap
get_impacts(a, key) ==
  LET v == DictGet(a, key, PyList(<<>>)) IN
  IF v.t = "dict" THEN PyList(<<v>>) ELSE v

\* lines 257-271: the row of one company, or the exception the loop body raises
comparison_row(company_key, analysis, period_source, year) ==
  LET a == analysis.v
      q_impacts == get_impacts(a, "quarterly_impact")
      f_impacts == get_impacts(a, "forward_guidance_impact")
      mitigation_list == DictGet(a, "mitigation_strategies", PyList(<<>>))
  IN
  IF q_impacts.t # "list" \/ f_impacts.t # "list"
  THEN Fail("TypeError")
  ELSE
    LET q_summary == impact_summary(q_impacts.v)
        f_summary == impact_summary(f_impacts.v)
        total_summary_parts ==
          (IF Truthy(q_impacts) THEN <<Lit("Q2 Impact: ") \o q_summary>> ELSE <<>>)
          \o (IF Truthy(f_impacts)
              THEN <<Lit("FY") \o Lit(ToString(year + 1)) \o Lit(" Guidance: ") \o f_summary>>
              ELSE <<>>)
        joined == Join(Lit("<br>"), total_summary_parts)
        total_summary == IF joined = <<>> THEN Lit("No specific impact mentioned.") ELSE joined
        mitigation_html ==
          IF Truthy(mitigation_list)
          THEN Lit("<ul>")
               \o Concat([i \in 1..Len(mitigation_list.v) |->
                            Lit("<li>") \o Format(mitigation_list.v[i]) \o Lit("</li>")])
               \o Lit("</ul>")
          ELSE Lit("Not specified")
    IN Out(<<Lit("<strong>")
               \o Format(DictGet(a, "company_name", PyStr(<<company_key>>)))
               \o Lit("</strong>"),
             Data(period_source), total_summary, mitigation_html>>)

\* the entries a loop with "if not analysis: continue" goes through
Shown(all_analyses) == SelectSeq(all_analyses, LAMBDA e : Truthy(e.v))

\* create_comparison_table (lines 254-278)
create_comparison_table(all_analyses, period_source, year) ==
  LET entries == Shown(all_analyses)
      rows == [i \in 1..Len(entries) |->
                 comparison_row(entries[i].k, entries[i].v, period_source, year)]
  IN
  IF \E i \in 1..Len(rows) : rows[i].raised # ""
  THEN Fail(rows[CHOOSE i \in 1..Len(rows) :
                   /\ rows[i].raised # ""
                   /\ \A j \in 1..(i - 1) : rows[j].raised = ""].raised)
  ELSE IF rows = <<>>
  THEN Out(Lit("[header] Cross-Company Comparison") \o Lit("[info] No data available for comparison."))
  ELSE Out(Lit("[header] Cross-Company Comparison")
           \o Lit("<div class=report-card><h3>Comparison Summary</h3>")
           \o to_html([header |-> <<"Company", "Period / Source", "Tariff Impact Summary", "Mitigation">>,
                       rows |-> [i \in 1..Len(rows) |-> rows[i].out]])
           \o Lit("</div>"))

\* lines 310-318 and 344-360: the impacts of one category as the exports read them
export_impacts(impacts) == IF impacts.t = "list" THEN impacts.v ELSE <<impacts>>

\* lines 304-331: the block of one company in the HTML export
html_block(company, analysis) ==
  LET a == analysis.v
      sentiment == DictGet(a, "overall_sentiment", PyStr(<<"N/A">>))
      summary == DictGet(a, "summary", PyStr(<<"No summary provided.">>))
      qual_impacts == DictGet(a, "qualitative_impacts", PyNone)
      strategies == DictGet(a, "mitigation_strategies", PyNone)
      card(title, key) ==
        LET impacts == DictGet(a, key, PyNone) IN
        IF ~Truthy(impacts)
        THEN Lit("<div class=report-card><h3>") \o Lit(title) \o Lit("</h3><p><i>")
             \o Lit(Placeholder) \o Lit(".</i></p></div>")
        ELSE Lit("<div class=report-card><h3>") \o Lit(title) \o Lit("</h3>")
             \o to_html(Frame(export_impacts(impacts))) \o Lit("</div>")
      bullets(title, items) ==
        IF Truthy(items)
        THEN Lit("<div class=report-card><h3>") \o Lit(title) \o Lit("</h3><ul>")
             \o Concat([i \in 1..Len(items.v) |->
                          Lit("<li>") \o html_escape(Data(items.v[i].v)) \o Lit("</li>")])
             \o Lit("</ul></div>")
        ELSE <<>>
  IN
  IF sentiment.t # "str" \/ summary.t # "str"
  THEN Fail("AttributeError")
  ELSE Out(
    Lit("<h2>Tariff Impact Analysis: ")
    \o Format(DictGet(a, "company_name", PyStr(<<company>>))) \o Lit("</h2>")
    \o Lit("<div class=report-card><h3>Executive Summary</h3><p><strong>Overall Sentiment on Tariffs:</strong> ")
    \o html_escape(Data(sentiment.v)) \o Lit("</p><p>")
    \o html_escape(Data(summary.v)) \o Lit("</p></div>")
    \o card("Quarterly Financial Impact", "quarterly_impact")
    \o card("Forward Guidance Impact", "forward_guidance_impact")
    \o bullets("Qualitative Impacts", qual_impacts)
    \o bullets("Mitigation Strategies", strategies)
    \o Lit("<hr>"))

\* the first exception among the blocks of a document, "" when none raised
FirstRaised(blocks) ==
  IF \A i \in 1..Len(blocks) : blocks[i].raised = "" THEN ""
  ELSE blocks[CHOOSE i \in 1..Len(blocks) :
                /\ blocks[i].raised # ""
                /\ \A j \in 1..(i - 1) : blocks[j].raised = ""].raised

\* generate_html_report (lines 280-333): the blocks it emits, one per company
html_blocks(all_analyses) ==
  LET entries == Shown(all_analyses) IN
  [i \in 1..Len(entries) |-> html_block(entries[i].k, entries[i].v)]

generate_html_report(all_analyses, period_source, year) ==
  LET blocks == html_blocks(all_analyses) IN
  IF FirstRaised(blocks) # "" THEN Fail(FirstRaised(blocks))
  ELSE Out(Lit("<html><head><title>Tariff Impact Report</title></head><body>")
           \o Concat([i \in 1..Len(blocks) |-> blocks[i].out])
           \o Lit("</body></html>"))

\* lines 338-371: the block of one company in the Word export, as the
\* elements added to the document
word_block(company, analysis) ==
  LET a == analysis.v
      summary == DictGet(a, "summary", PyStr(<<"No summary provided.">>))
      qual_impacts == DictGet(a, "qualitative_impacts", PyNone)
      strategies == DictGet(a, "mitigation_strategies", PyNone)
      heading(level, toks) == <<[el |-> "heading", level |-> level, text |-> Chars(toks)]>>
      paragraph(toks) == <<[el |-> "paragraph", text |-> Chars(toks)]>>
      section(title, key) ==
        LET impacts == DictGet(a, key, PyNone) IN
        heading(2, Lit(title))
        \o (IF ~Truthy(impacts)
            THEN paragraph(Lit(Placeholder) \o Lit("."))
            ELSE LET frame == Frame(export_impacts(impacts)) IN
                 <<[el |-> "table", header |-> frame.header,
                    rows |-> [i \in 1..Len(frame.rows) |->
                                [j \in 1..Len(frame.rows[i]) |-> Chars(frame.rows[i][j])]]]>>)
      bullets(title, items) ==
        IF Truthy(items)
        THEN heading(2, Lit(title))
             \o [i \in 1..Len(items.v) |-> [el |-> "bullet", text |-> items.v[i].v]]
        ELSE <<>>
  IN Out(
    heading(1, Lit("Analysis for: ") \o Format(DictGet(a, "company_name", PyStr(<<company>>))))
    \o heading(2, Lit("Executive Summary"))
    \o paragraph(Lit("Overall Sentiment on Tariffs: ")
                 \o Format(DictGet(a, "overall_sentiment", PyStr(<<"N/A">>))))
    \o paragraph(IF summary.t = "str" THEN Data(summary.v) ELSE <<>>)
    \o section("Quarterly Financial Impact", "quarterly_impact")
    \o section("Forward Guidance Impact", "forward_guidance_impact")
    \o bullets("Qualitative Impacts", qual_impacts)
    \o bullets("Mitigation Strategies", strategies)
    \o <<[el |-> "page_break"]>>)

word_blocks(all_analyses) ==
  LET entries == Shown(all_analyses) IN
  [i \in 1..Len(entries) |-> word_block(entries[i].k, entries[i].v)]

\* generate_word_report (lines 335-375)
generate_word_report(all_analyses, period_source, year) ==
  LET blocks == word_blocks(all_analyses) IN
  IF FirstRaised(blocks) # "" THEN Fail(FirstRaised(blocks))
  ELSE Out(<<[el |-> "heading", level |-> 0, text |-> <<"Tariff Impact Report">>]>>
           \o Concat([i \in 1..Len(blocks) |-> blocks[i].out]))

\* lines 444-446: the per-company reports of the page
display_reports(all_analyses) ==
  [i \in 1..Len(all_analyses) |-> display_tariff_report(all_analyses[i].k, all_analyses[i].v)]

\* lines 440-456: the script renders the session's results; the first
\* exception ends the script run
render_page(all_analyses, period_source, year) ==
  IF all_analyses = <<>> THEN [shown |-> FALSE, raised |-> "", by |-> ""]
  ELSE IF FirstRaised(display_reports(all_analyses)) # ""
  THEN [shown |-> FALSE, raised |-> FirstRaised(display_reports(all_analyses)),
        by |-> "display_tariff_report"]
  ELSE IF Len(all_analyses) > 1
          /\ create_comparison_table(all_analyses, period_source, year).raised # ""
  THEN [shown |-> FALSE,
        raised |-> create_comparison_table(all_analyses, period_source, year).raised,
        by |-> "create_comparison_table"]
  ELSE IF generate_html_report(all_analyses, period_source, year).raised # ""
  THEN [shown |-> FALSE,
        raised |-> generate_html_report(all_analyses, period_source, year).raised,
        by |-> "generate_html_report"]
  ELSE IF generate_word_report(all_analyses, period_source, year).raised # ""
  THEN [shown |-> FALSE,
        raised |-> generate_word_report(all_analyses, period_source, year).raised,
        by |-> "generate_word_report"]
  ELSE [shown |-> TRUE, raised |-> "", by |-> ""]

\* ------------------------------------------------------------ the script
VARIABLES
  secrets,               \* the Streamlit secret store the script reads at start
  pc,                    \* where the script run is
  DEEPSEEK_API_KEY, FMP_API_KEY,
  all_analysis_results,  \* st.session_state.all_analysis_results (ordered dict)
  analysis_period,       \* st.session_state.analysis_period
  analysis_year,         \* st.session_state.analysis_year
  queue,                 \* items of the running batch not processed yet
  form,                  \* year and quarter widgets of the running fetch
  fmp_cache, ds_cache,   \* st.cache_data stores of the two cached functions
  run,                   \* number of button presses so far
  fresh,                 \* company keys written since the latest button press
                         \* (.press), since the latest press that started a
                         \* batch (.batch), and ever (.ever)
  requests,              \* network requests issued in the running batch
  last,                  \* what the last processed item did
  page                   \* what the last rendering of the results did

vars == <<secrets, pc, DEEPSEEK_API_KEY, FMP_API_KEY, all_analysis_results,
          analysis_period, analysis_year, queue, form, fmp_cache, ds_cache,
          run, fresh, requests, last, page>>

Years == {2024}
Quarters == {2}
NowYear == 2026

\* the secret store: no secrets file at all, or a file with any of the keys
Section(name) == Item(name, PyDict(<<Item("api_key", PyStr(<<"key">>))>>))
SecretStores ==
  {[file |-> FALSE, items |-> <<>>]}
  \cup {[file |-> TRUE, items |-> s] : s \in
          {<<Section("deepseek"), Section("fmp")>>, <<Section("deepseek")>>,
           <<Section("fmp")>>, <<>>}}

\* what the loop iteration of one item did: the document it read (uploads),
\* the text it acquired, the requests it issued (transcript, extraction), the
\* exception that escaped it ("" when none) and whether an entry was written
Did(key, doc, acquired, calls, raised, stored) ==
  [key |-> key, doc |-> doc, acquired |-> acquired, calls |-> calls,
   raised |-> raised, stored |-> stored]
NoDoc == [opens |-> FALSE, pages |-> <<"none">>]
NoItem == Did("", NoDoc, PyNone, <<0, 0>>, "", FALSE)
NoPage == [shown |-> FALSE, raised |-> "", by |-> ""]

\* bags of cache keys, one copy per request
ZeroCount == [fmp |-> EmptyBag, ds |-> EmptyBag]

Init ==
  /\ secrets \in SecretStores
  /\ pc = "start"
  /\ DEEPSEEK_API_KEY = PyNone
  /\ FMP_API_KEY = PyNone
  /\ all_analysis_results = <<>>
  /\ analysis_period = <<"">>
  /\ analysis_year = NowYear
  /\ queue = <<>>
  /\ form = [year |-> NowYear, quarter |-> 2]
  /\ fmp_cache = {}
  /\ ds_cache = {}
  /\ run = 0
  /\ fresh = [press |-> {}, batch |-> {}, ever |-> {}]
  /\ requests = ZeroCount
  /\ last = NoItem
  /\ page = NoPage

\* lines 66-71 and 388-393: read the two keys; a missing secrets file raises
\* FileNotFoundError and stops the script, a missing key is just None
Startup ==
  /\ pc = "start"
  /\ IF ~secrets.file
     THEN /\ pc' = "stopped"
          /\ UNCHANGED <<DEEPSEEK_API_KEY, FMP_API_KEY>>
     ELSE /\ pc' = "idle"
          /\ DEEPSEEK_API_KEY' =
               DictGet(DictGet(secrets.items, "deepseek", PyDict(<<>>)).v, "api_key", PyNone)
          /\ FMP_API_KEY' =
               DictGet(DictGet(secrets.items, "fmp", PyDict(<<>>)).v, "api_key", PyNone)
  /\ UNCHANGED <<secrets, all_analysis_results, analysis_period, analysis_year,
                 queue, form, fmp_cache, ds_cache, run, fresh, requests,
                 last, page>>

\* the comma-separated fields a user can type, and ticker.strip().upper()
RawFields == {"a", " B ", " "}
strip_upper(f) ==
  CASE f = "a" -> "A"
    [] f = " B " -> "B"
    [] OTHER -> ""

RECURSIVE parse_tickers(_)
\* [ticker.strip().upper() for ticker in fields if ticker.strip()] (line 404)
parse_tickers(fields) ==
  IF fields = <<>> THEN <<>>
  ELSE IF strip_upper(Head(fields)) = "" THEN parse_tickers(Tail(fields))
  ELSE <<strip_upper(Head(fields))>> \o parse_tickers(Tail(fields))

\* a handler that forgets to clear the previous results
KeptAnalysisSet == all_analysis_results

\* lines 407 and 424: st.session_state.all_analysis_results = {}
NewAnalysisSet == <<>>

\* lines 403-409: the button press, up to the start of the loop
ClickFetch ==
  /\ pc = "idle"
  /\ run < MaxRuns
  /\ run' = run + 1
  /\ \E fields \in SeqsUpTo(RawFields, MaxBatch), year \in Years, quarter \in Quarters :
       LET tickers == parse_tickers(fields) IN
       IF tickers # <<>>
       THEN /\ all_analysis_results' = NewAnalysisSet
            /\ analysis_period' = <<ToString(year), " Q", ToString(quarter), " / Earnings Call">>
            /\ analysis_year' = year
            /\ queue' = tickers
            /\ form' = [year |-> year, quarter |-> quarter]
            /\ pc' = "fetch"
            /\ fresh' = [fresh EXCEPT !.press = {}, !.batch = {}]
            /\ requests' = ZeroCount
            /\ last' = NoItem
       ELSE /\ pc' = "render"
            /\ queue' = <<>>
            /\ fresh' = [fresh EXCEPT !.press = {}]
            /\ UNCHANGED <<all_analysis_results, analysis_period, analysis_year,
                           form, requests, last>>
  /\ page' = NoPage
  /\ UNCHANGED <<secrets, DEEPSEEK_API_KEY, FMP_API_KEY, fmp_cache, ds_cache>>

\* uploaded file names, and os.path.splitext(name)[0]
FileNames == {<<"A", ".pdf">>, <<"B", ".pdf">>}
splitext0(name) == name[1]

\* lines 421-426 and 435-436
ClickUpload ==
  /\ pc = "idle"
  /\ run < MaxRuns
  /\ run' = run + 1
  /\ \E uploaded_files \in SeqsUpTo(FileNames, MaxBatch) :
       IF uploaded_files # <<>>
       THEN /\ all_analysis_results' = NewAnalysisSet
            /\ analysis_period' = <<"Uploaded Docs">>
            /\ analysis_year' = NowYear
            /\ queue' = uploaded_files
            /\ pc' = "upload"
            /\ fresh' = [fresh EXCEPT !.press = {}, !.batch = {}]
            /\ requests' = ZeroCount
            /\ last' = NoItem
       ELSE /\ pc' = "render"
            /\ queue' = <<>>
            /\ fresh' = [fresh EXCEPT !.press = {}]
            /\ UNCHANGED <<all_analysis_results, analysis_period, analysis_year,
                           requests, last>>
  /\ page' = NoPage
  /\ UNCHANGED <<secrets, DEEPSEEK_API_KEY, FMP_API_KEY, form, fmp_cache, ds_cache>>

Log(log, n, key) == IF n > 0 THEN log (+) SetToBag({key}) ELSE log

\* an exception that leaves the loop ends the script run
Abort(company, doc, acquired, calls, exc, by) ==
  /\ pc' = "idle"
  /\ page' = [shown |-> FALSE, raised |-> exc, by |-> by]
  /\ last' = Did(company, doc, acquired, calls, exc, FALSE)
  /\ UNCHANGED <<all_analysis_results, fresh, queue>>

\* the loop goes on to the next item, or the script to the rendering
Advance ==
  /\ queue' = Tail(queue)
  /\ pc' = IF Tail(queue) = <<>> THEN "render" ELSE pc
  /\ UNCHANGED page

\* lines 414-416 and 432-434: the text is there, analyse it and store the result
Analyze(company, doc, text_to_analyze, fmp_calls, fmp_log) ==
  \E dr \in DsReplies(ds_cache, Truthy(DEEPSEEK_API_KEY), text_to_analyze) :
    LET ex == analyze_text_with_deepseek(ds_cache, Truthy(DEEPSEEK_API_KEY),
                                         text_to_analyze, dr) IN
    /\ requests' = [fmp |-> fmp_log,
                    ds |-> Log(requests.ds, ex.requests, text_to_analyze)]
    /\ ds_cache' = CachePut(ds_cache, text_to_analyze, ex)
    /\ IF ex.raised # ""
       THEN Abort(company, doc, text_to_analyze, <<fmp_calls, ex.requests>>,
                  ex.raised, "extraction")
       ELSE /\ all_analysis_results' = DictSet(all_analysis_results, company, ex.ret)
            /\ fresh' = [press |-> fresh.press \cup {company},
                         batch |-> fresh.batch \cup {company},
                         ever |-> fresh.ever \cup {company}]
            /\ last' = Did(company, doc, text_to_analyze, <<fmp_calls, ex.requests>>,
                           "", TRUE)
            /\ Advance

\* a loop that stores the result of the analysis whether or not a text came back
StoreAnyway(company, doc, acquired, fmp_calls, fmp_log) ==
  Analyze(company, doc, acquired, fmp_calls, fmp_log)

\* no text: the item is passed over
Skip(company, doc, acquired, fmp_calls, fmp_log) ==
  /\ last' = Did(company, doc, acquired, <<fmp_calls, 0>>, "", FALSE)
  /\ requests' = [requests EXCEPT !.fmp = fmp_log]
  /\ Advance
  /\ UNCHANGED <<all_analysis_results, fresh, ds_cache>>

\* lines 412-416: one iteration of the fetch loop
FetchItem ==
  /\ pc = "fetch"
  /\ queue # <<>>
  /\ \E fr \in FmpReplies(fmp_cache, Truthy(FMP_API_KEY),
                            <<Head(queue), form.year, form.quarter>>) :
       LET ticker == Head(queue)
           key == <<ticker, form.year, form.quarter>>
           acq == get_transcript_from_fmp(fmp_cache, Truthy(FMP_API_KEY), ticker,
                                          form.year, form.quarter, fr)
           fmp_log == Log(requests.fmp, acq.requests, key)
       IN /\ fmp_cache' = CachePut(fmp_cache, key, acq)
          /\ IF acq.raised # ""
             THEN /\ Abort(ticker, NoDoc, PyNone, <<acq.requests, 0>>, acq.raised,
                           "acquisition")
                  /\ requests' = [requests EXCEPT !.fmp = fmp_log]
                  /\ UNCHANGED ds_cache
             ELSE IF Truthy(acq.ret)
             THEN Analyze(ticker, NoDoc, acq.ret, acq.requests, fmp_log)
             ELSE Skip(ticker, NoDoc, acq.ret, acq.requests, fmp_log)
  /\ UNCHANGED <<secrets, DEEPSEEK_API_KEY, FMP_API_KEY, analysis_period,
                 analysis_year, form, run>>

\* lines 429-434: one iteration of the upload loop
UploadItem ==
  /\ pc = "upload"
  /\ queue # <<>>
  /\ \E doc \in UploadedDocs :
       LET uploaded_file == Head(queue)
           company_name == splitext0(uploaded_file)
           text_to_analyze == extract_text_from_pdf(doc).ret
       IN IF Truthy(text_to_analyze)
          THEN Analyze(company_name, doc, text_to_analyze, 0, requests.fmp)
          ELSE Skip(company_name, doc, text_to_analyze, 0, requests.fmp)
  /\ UNCHANGED <<secrets, DEEPSEEK_API_KEY, FMP_API_KEY, analysis_period,
                 analysis_year, form, fmp_cache, run>>

\* the one-hour ttl of st.cache_data runs out for one entry while a batch is
\* running (an expiry between batches is the same as one before the first item)
Expire ==
  /\ pc \in {"fetch", "upload"}
  /\ \/ \E e \in fmp_cache :
          /\ fmp_cache' = fmp_cache \ {e}
          /\ UNCHANGED ds_cache
     \/ \E e \in ds_cache :
          /\ ds_cache' = ds_cache \ {e}
          /\ UNCHANGED fmp_cache
  /\ UNCHANGED <<secrets, pc, DEEPSEEK_API_KEY, FMP_API_KEY, all_analysis_results,
                 analysis_period, analysis_year, queue, form, run, fresh, requests,
                 last, page>>

\* lines 440-456: the end of every script run
Render ==
  /\ pc = "render"
  /\ pc' = "idle"
  /\ page' = render_page(all_analysis_results, analysis_period, analysis_year)
  /\ last' = NoItem
  /\ UNCHANGED <<secrets, DEEPSEEK_API_KEY, FMP_API_KEY, all_analysis_results,
                 analysis_period, analysis_year, queue, form, fmp_cache, ds_cache,
                 run, fresh, requests>>

Next ==
  \/ Startup
  \/ ClickFetch
  \/ ClickUpload
  \/ FetchItem
  \/ UploadItem
  \/ Expire
  \/ Render

Spec == Init /\ [][Next]_vars

\* ------------------------------------------------ the renderers on their own
\* The four rendering functions applied to the AnalysisSets the extraction
\* service can fill the session with: every field of an analysis is absent,
\* null or has a value.
Absent == [t |-> "absent"]
Strs(ss) == PyList([i \in 1..Len(ss) |-> PyStr(ss[i])])

RenderChoices ==
  [company_name : {Absent, PyNone, PyStr(<<"<", "i", ">", "Acme">>)},
   quarterly_impact : {Absent, PyNone, PyList(<<>>), E_cogs, PyList(<<E_cogs, E_markup>>)},
   forward_guidance_impact : {Absent, PyNone, E_margin, PyList(<<E_margin>>)},
   qualitative_impacts : {Absent, PyNone, Strs(<<<<"q1">>, <<"q", "<", "2">>>>)},
   mitigation_strategies : {Absent, PyNone, Strs(<<>>), Strs(<<<<"A">>>>),
                            Strs(<<<<"A">>, <<"B">>>>),
                            Strs(<<<<"A">>, <<"B">>, <<"<", "C", ">">>>>)},
   overall_sentiment : {Absent, PyNone, PyStr(<<"Negative">>)},
   summary : {Absent, PyNone, PyStr(<<"a", "<", "b", "&", "c">>)}]

\* the JSON object of a choice: the absent fields are left out
ToAnalysis(c) ==
  PyDict(SelectSeq([i \in 1..Len(Fields) |-> Item(Fields[i], c[Fields[i]])],
                   LAMBDA it : it.v # Absent))

Analyses == {ToAnalysis(c) : c \in RenderChoices}

RenderSets ==
  {<<Item("A", a)>> : a \in Analyses}
  \cup {<<Item("A", a), Item("B", b)>> : a \in Analyses, b \in {PyNone, A_full}}
  \cup {<<Item("A", b), Item("B", a)>> : a \in Analyses, b \in {PyNone}}

InitRender ==
  /\ secrets = [file |-> TRUE, items |-> <<Section("deepseek"), Section("fmp")>>]
  /\ pc = "render"
  /\ DEEPSEEK_API_KEY = PyStr(<<"key">>)
  /\ FMP_API_KEY = PyStr(<<"key">>)
  /\ all_analysis_results \in RenderSets
  /\ analysis_period = <<"Uploaded Docs">>
  /\ analysis_year = NowYear
  /\ queue = <<>>
  /\ form = [year |-> NowYear, quarter |-> 2]
  /\ fmp_cache = {}
  /\ ds_cache = {}
  /\ run = 1
  /\ fresh = [press |-> {"A", "B"}, batch |-> {"A", "B"}, ever |-> {"A", "B"}]
  /\ requests = ZeroCount
  /\ last = NoItem
  /\ page = NoPage

Applied(by, raised) ==
  /\ page' = [shown |-> raised = "", raised |-> raised, by |-> by]
  /\ UNCHANGED <<secrets, pc, DEEPSEEK_API_KEY, FMP_API_KEY, all_analysis_results,
                 analysis_period, analysis_year, queue, form, fmp_cache, ds_cache,
                 run, fresh, requests, last>>

\* lines 444-446
ShowReports ==
  /\ pc = "render"
  /\ Applied("display_tariff_report", FirstRaised(display_reports(all_analysis_results)))

\* lines 448-449
ShowComparison ==
  /\ pc = "render"
  /\ Len(all_analysis_results) > 1
  /\ Applied("create_comparison_table",
             create_comparison_table(all_analysis_results, analysis_period,
                                     analysis_year).raised)

\* line 455
ExportHtml ==
  /\ pc = "render"
  /\ Applied("generate_html_report",
             generate_html_report(all_analysis_results, analysis_period,
                                  analysis_year).raised)

\* line 456
ExportWord ==
  /\ pc = "render"
  /\ Applied("generate_word_report",
             generate_word_report(all_analysis_results, analysis_period,
                                  analysis_year).raised)

NextRender ==
  \/ ShowReports
  \/ ShowComparison
  \/ ExportHtml
  \/ ExportWord

SpecRender == InitRender /\ [][NextRender]_vars

\* --------------------------------------------- the PDF reader on its own
\* extract_text_from_pdf applied to every document of up to MaxPages pages
InitPdf ==
  /\ secrets = [file |-> TRUE, items |-> <<Section("deepseek"), Section("fmp")>>]
  /\ pc = "pdf"
  /\ DEEPSEEK_API_KEY = PyStr(<<"key">>)
  /\ FMP_API_KEY = PyStr(<<"key">>)
  /\ all_analysis_results = <<>>
  /\ analysis_period = <<"Uploaded Docs">>
  /\ analysis_year = NowYear
  /\ queue = <<>>
  /\ form = [year |-> NowYear, quarter |-> 2]
  /\ fmp_cache = {}
  /\ ds_cache = {}
  /\ run = 1
  /\ fresh = [press |-> {}, batch |-> {}, ever |-> {}]
  /\ requests = ZeroCount
  /\ \E doc \in Docs : last = Did("A", doc, PyNone, <<0, 0>>, "", FALSE)
  /\ page = NoPage

\* line 431: text_to_analyze = extract_text_from_pdf(uploaded_file)
ExtractPdf ==
  /\ pc = "pdf"
  /\ pc' = "read"
  /\ last' = [last EXCEPT !.acquired = extract_text_from_pdf(last.doc).ret,
                          !.raised = extract_text_from_pdf(last.doc).raised]
  /\ UNCHANGED <<secrets, DEEPSEEK_API_KEY, FMP_API_KEY, all_analysis_results,
                 analysis_period, analysis_year, queue, form, fmp_cache, ds_cache,
                 run, fresh, requests, page>>

SpecPdf == InitPdf /\ [][ExtractPdf]_vars

\* ------------------------------------------------------------------ claims

\* C1: batch fault isolation. No failure of the acquisition or of the
\* extraction of one company ends the loop: every company of the batch is
\* processed, a company whose analysis was stored has an entry, and the
\* rendering of the batch completes.
C1_BatchFaultIsolation ==
  /\ page.by \in {"acquisition", "extraction"} => page.raised = ""
  /\ (pc \in {"render", "idle"} /\ run > 0) => queue = <<>>
  /\ last.stored => HasKey(all_analysis_results, last.key)
  /\ pc = "idle" => page.raised = ""

\* C2 as stated: after every button press, also one with an empty input
\* list, the AnalysisSet holds no entry written before that press.
C2_NoEntryOfEarlierAction ==
  \A i \in 1..Len(all_analysis_results) : all_analysis_results[i].k \in fresh.press

\* C2, amended: every entry of the AnalysisSet was written after the latest
\* button press whose input list was not empty (that press emptied the set;
\* a press with an empty list leaves the set as it is).
C2_OnlyEntriesOfLatestBatch ==
  \A i \in 1..Len(all_analysis_results) : all_analysis_results[i].k \in fresh.batch

\* a second batch has replaced the results of an earlier one
C2_Witness ==
  /\ run = 2
  /\ pc = "idle"
  /\ all_analysis_results # <<>>
  /\ \E k \in fresh.ever : ~HasKey(all_analysis_results, k)

\* C4: a transport failure, a non-success status and a reply of unexpected
\* shape are each reported with a reason of their own, and in each case the
\* extraction call returns None instead of raising.
C4_ExtractionFailuresReturnNone ==
  /\ page.by = "extraction" => page.raised = ""
  /\ \A r1, r2 \in DsResponses :
       (DsMode(r1) # "ok" /\ DsMode(r2) # "ok" /\ DsMode(r1) # DsMode(r2))
         => ds_body(TRUE, PyStr(<<"t1">>), r1).notice # ds_body(TRUE, PyStr(<<"t1">>), r2).notice

\* C7 as stated: within one batch at most one transcript request per
\* (ticker, year, quarter) and at most one extraction request per text.
C7_OneRequestPerKey ==
  /\ \A k \in BagToSet(requests.fmp) : CopiesIn(k, requests.fmp) <= 1
  /\ \A k \in BagToSet(requests.ds) : CopiesIn(k, requests.ds) <= 1

\* the keys requested once more in a step
Issued(before, after) == {k \in BagToSet(after) : CopiesIn(k, after) > CopiesIn(k, before)}

\* what one loop iteration may do to the requests of the batch
C7_Step ==
  pc \in {"fetch", "upload"} =>
    /\ BagCardinality(requests'.fmp) <= BagCardinality(requests.fmp) + 1
    /\ BagCardinality(requests'.ds) <= BagCardinality(requests.ds) + 1
    /\ \A k \in Issued(requests.fmp, requests'.fmp) :
         /\ k = <<Head(queue), form.year, form.quarter>>
         /\ ~CacheHas(fmp_cache, k)
         /\ (last'.raised = "" => CacheHas(fmp_cache', k))
    /\ \A k \in Issued(requests.ds, requests'.ds) :
         /\ k = last'.acquired
         /\ ~CacheHas(ds_cache, k)
         /\ (last'.raised = "" => CacheHas(ds_cache', k))

\* C7, amended: one loop iteration issues at most one transcript request and
\* at most one extraction request, each only for its own item and only when
\* st.cache_data holds no live result for the key; what the call returns,
\* a failure included, is cached, so the item is not requested again before
\* the entry expires.
C7_SingleAttemptWhileCached == [][C7_Step]_vars

\* a ticker listed a second time in the batch was answered from the cache
C7_Witness ==
  /\ last.key = "A"
  /\ Truthy(last.acquired)
  /\ last.calls[1] = 0
  /\ CopiesIn(<<"A", 2024, 2>>, requests.fmp) = 1

\* the secret store lacks one of the two credentials
CredentialAbsent ==
  \/ ~HasKey(secrets.items, "deepseek")
  \/ ~HasKey(secrets.items, "fmp")

\* C8: when one of the two credentials is absent from the secret store the
\* script halts at startup: no batch, no request, no entry.
C8_MissingCredentialHalts ==
  CredentialAbsent =>
    /\ pc \notin {"fetch", "upload"}
    /\ requests = ZeroCount
    /\ all_analysis_results = <<>>

\* the text of every page that parses, in document order, each followed by
\* a newline
ParsedPages(doc) ==
  IF ~doc.opens THEN <<>>
  ELSE Concat([i \in 1..Len(doc.pages) |->
                 IF doc.pages[i] = "text" THEN <<PageText[i], "\n">> ELSE <<>>])

\* C9: a page that fails to parse does not keep the later pages from being
\* read: the text returned is that of every page that parses, in document
\* order, and the reader raises nothing.
C9_LaterPagesStillRead ==
  pc = "read" =>
    /\ last.acquired = PyStr(ParsedPages(last.doc))
    /\ last.raised = ""

\* the entries with an analysis in which the field is missing or null
Lacking(all_analyses, key) ==
  SelectSeq(all_analyses,
            LAMBDA e : Truthy(e.v) /\ DictGet(e.v.v, key, PyNone) = PyNone)

Titles == <<"Quarterly Financial Impact", "Forward Guidance Impact">>
ImpactKeys == <<"quarterly_impact", "forward_guidance_impact">>

\* the placeholder card of a category is in the HTML text
CardHasPlaceholder(toks, title) ==
  \E i \in 1..(Len(toks) - 2) :
    toks[i].ch = title /\ toks[i + 2].ch = Placeholder

\* the placeholder paragraph of a category is in the Word document
SectionHasPlaceholder(els, title) ==
  \E i \in 1..(Len(els) - 1) :
    /\ els[i].el = "heading"
    /\ els[i].text = <<title>>
    /\ els[i + 1].el = "paragraph"
    /\ els[i + 1].text = <<Placeholder, ".">>

\* C3: whatever field of an analysis is absent or null, the per-company
\* report, the comparison view, the HTML export and the Word export complete
\* without an exception, and a missing or null quarterly_impact /
\* forward_guidance_impact shows as the placeholder.
C3_RenderingToleratesMissing ==
  /\ page.by \in {"display_tariff_report", "create_comparison_table",
                  "generate_html_report", "generate_word_report"}
       => page.raised = ""
  /\ \A c \in 1..2 : \A i \in 1..Len(Lacking(all_analysis_results, ImpactKeys[c])) :
       LET e == Lacking(all_analysis_results, ImpactKeys[c])[i] IN
       /\ page.by = "display_tariff_report"
            => CardHasPlaceholder(display_tariff_report(e.k, e.v).out, Titles[c])
       /\ page.by = "generate_html_report"
            => CardHasPlaceholder(html_block(e.k, e.v).out, Titles[c])
       /\ page.by = "generate_word_report"
            => SectionHasPlaceholder(word_block(e.k, e.v).out, Titles[c])

\* no piece of an analysis value reaches the HTML with a special character
Escaped(toks) == \A i \in 1..Len(toks) : ~(toks[i].src = "data" /\ toks[i].ch \in Special)

\* C5: every free-text value of an analysis is escaped before it is put into
\* the HTML of the per-company report, the comparison view or the HTML export.
C5_FreeTextEscaped ==
  /\ page.by = "display_tariff_report"
       => \A i \in 1..Len(all_analysis_results) :
            Escaped(display_reports(all_analysis_results)[i].out)
  /\ page.by = "create_comparison_table"
       => Escaped(create_comparison_table(all_analysis_results, analysis_period,
                                          analysis_year).out)
  /\ page.by = "generate_html_report"
       => Escaped(generate_html_report(all_analysis_results, analysis_period,
                                       analysis_year).out)

\* the company names the blocks of an export start with, in document order
HtmlBlockNames(toks) ==
  LET at == SelectSeq([i \in 1..Len(toks) |-> i],
                      LAMBDA i : toks[i].ch = "<h2>Tariff Impact Analysis: ")
  IN [j \in 1..Len(at) |-> toks[at[j] + 1].ch]
WordBlockNames(els) ==
  LET at == SelectSeq([i \in 1..Len(els) |-> i],
                      LAMBDA i : els[i].el = "heading" /\ els[i].level = 1)
  IN [j \in 1..Len(at) |-> els[at[j]].text[2]]

\* the name each entry that has an analysis is expected under
ExpectedNames(all_analyses) ==
  LET entries == SelectSeq(all_analyses, LAMBDA e : e.v # PyNone /\ e.v # PyDict(<<>>))
  IN [i \in 1..Len(entries) |->
        Format(DictGet(entries[i].v.v, "company_name", PyStr(<<entries[i].k>>)))[1].ch]

\* C6: each export emits one company block for every entry that has an
\* analysis (not null; an object without any field is counted as none), in
\* insertion order, and none for the other entries.
C6_ExportCoversNonNull ==
  /\ page.by = "generate_html_report" =>
       /\ page.raised = ""
       /\ HtmlBlockNames(generate_html_report(all_analysis_results, analysis_period,
                                              analysis_year).out)
            = ExpectedNames(all_analysis_results)
  /\ page.by = "generate_word_report" =>
       /\ page.raised = ""
       /\ WordBlockNames(generate_word_report(all_analysis_results, analysis_period,
                                              analysis_year).out)
            = ExpectedNames(all_analysis_results)

\* the list form of the two impact fields of an analysis
ListForm(v) ==
  IF v.t = "dict" THEN PyList(<<v>>)
  ELSE IF v.t = "none" THEN PyList(<<>>)
  ELSE v
Normalized(analysis) ==
  IF ~Truthy(analysis) THEN analysis
  ELSE PyDict(DictSet(DictSet(analysis.v, "quarterly_impact",
                              ListForm(DictGet(analysis.v, "quarterly_impact", PyNone))),
                      "forward_guidance_impact",
                      ListForm(DictGet(analysis.v, "forward_guidance_impact", PyNone))))
NormalizedSet(all_analyses) ==
  [i \in 1..Len(all_analyses) |-> Item(all_analyses[i].k, Normalized(all_analyses[i].v))]

\* C10: each of the four consumers treats a single mapping as a one-element
\* list and a missing or null value as an empty list: it does what it would
\* do had the analysis carried the list form.
C10_ShapeNormalization ==
  LET given == all_analysis_results
      listed == NormalizedSet(all_analysis_results)
  IN
  /\ page.by = "display_tariff_report" => display_reports(given) = display_reports(listed)
  /\ page.by = "create_comparison_table" =>
       create_comparison_table(given, analysis_period, analysis_year)
         = create_comparison_table(listed, analysis_period, analysis_year)
  /\ page.by = "generate_html_report" =>
       generate_html_report(given, analysis_period, analysis_year)
         = generate_html_report(listed, analysis_period, analysis_year)
  /\ page.by = "generate_word_report" =>
       generate_word_report(given, analysis_period, analysis_year)
         = generate_word_report(listed, analysis_period, analysis_year)

\* the text '<metric>: <value>' of the entries of a list, joined by '; '
SummaryOf(entries) ==
  Join(<<"; ">>,
       [i \in 1..Len(entries) |->
          Chars(Format(DictGet(entries[i].v, "metric", PyStr(<<"N/A">>))))
          \o <<": ">>
          \o Chars(Format(DictGet(entries[i].v, "impact_value", PyStr(<<"N/A">>))))])

\* the summary cell the two impact lists of an analysis call for
ExpectedSummary(analysis, year) ==
  LET q == ListForm(DictGet(analysis.v, "quarterly_impact", PyNone)).v
      f == ListForm(DictGet(analysis.v, "forward_guidance_impact", PyNone)).v
      lines == (IF Len(q) > 0 THEN <<<<"Q2 Impact: ">> \o SummaryOf(q)>> ELSE <<>>)
               \o (IF Len(f) > 0
                   THEN <<<<"FY", ToString(year + 1), " Guidance: ">> \o SummaryOf(f)>>
                   ELSE <<>>)
  IN IF lines = <<>> THEN <<"No specific impact mentioned.">>
     ELSE Join(<<"<br>">>, lines)

\* the summary cell of the row create_comparison_table builds for an entry
SummaryCell(e, period_source, year) ==
  Chars(comparison_row(e.k, e.v, period_source, year).out[3])

\* C11: the comparison view completes, and for every entry that has an
\* analysis (not null; an object without any field is counted as none) the
\* 'Tariff Impact Summary' cell is the 'Q2 Impact: ' line (present iff there
\* is a quarterly impact), then the 'FY<year+1> Guidance: ' line (present iff
\* there is a forward-guidance impact), joined by a line break, and
\* 'No specific impact mentioned.' when there is neither; one impact
\* COGS / +5% without guidance in 2024 gives 'Q2 Impact: COGS: +5%'.
C11_ComparisonSummaryCell ==
  /\ page.by = "create_comparison_table" =>
       /\ page.raised = ""
       /\ \A i \in 1..Len(Shown(all_analysis_results)) :
            SummaryCell(Shown(all_analysis_results)[i], analysis_period, analysis_year)
              = ExpectedSummary(Shown(all_analysis_results)[i].v, analysis_year)
  /\ SummaryCell(Item("A", PyDict(<<Item("quarterly_impact", PyList(<<E_cogs>>))>>)),
                 <<"2024 Q2 / Earnings Call">>, 2024)
       = <<"Q2 Impact: ", "COGS", ": ", "+5%">>

\* what the browser shows for a token: an entity shows as its character
Shows(tok) ==
  IF tok.src = "esc" THEN CHOOSE c \in Special : Entity(c) = tok.ch ELSE tok.ch

\* the paragraph of the Mitigation Strategies card of a report as the reader
\* sees it, <<>> when the report has no such card
MitigationShown(toks) ==
  LET at == SelectSeq([i \in 1..Len(toks) |-> i],
                      LAMBDA i : toks[i].ch = "<div class=report-card><h3>Mitigation Strategies</h3><p>")
  IN IF at = <<>> THEN <<>>
     ELSE [j \in 1..(Len(toks) - at[1] - 1) |-> Shows(toks[at[1] + j])]

\* the sentence a list of strategies calls for
ExpectedSentence(items) ==
  LET n == Len(items)
      X == IF n = 1 THEN items[1].v
           ELSE IF n = 2 THEN items[1].v \o <<" and ">> \o items[2].v
           ELSE Join(<<", ">>, [i \in 1..(n - 1) |-> items[i].v])
                \o <<", and ">> \o items[n].v
  IN <<"To manage these impacts, the company is employing several strategies, including ">>
     \o X \o <<".">>

\* C12: for an analysis with a non-empty list of strategies the per-company
\* report shows the sentence '... including <X>.', X being the one item, or
\* 'A and B', or 'A, B, and C'; for an empty, null or absent list the report
\* has no Mitigation Strategies section.
C12_MitigationSentence ==
  page.by = "display_tariff_report" =>
    \A i \in 1..Len(Shown(all_analysis_results)) :
      LET e == Shown(all_analysis_results)[i]
          strategies == DictGet(e.v.v, "mitigation_strategies", PyNone)
          report == display_tariff_report(e.k, e.v)
      IN IF Truthy(strategies)
         THEN /\ report.raised = ""
              /\ MitigationShown(report.out) = ExpectedSentence(strategies.v)
         ELSE MitigationShown(report.out) = <<>>

\* f"{year} Q{quarter} / Earnings Call"
FetchLabel(year, quarter) == <<ToString(year), " Q", ToString(quarter), " / Earnings Call">>

\* the label and the year in session state belong to one action: those of the
\* session start, of an upload or of a fetch for the year held
C13_SameAction ==
  \/ /\ analysis_period = <<"">>
     /\ analysis_year = NowYear
     /\ all_analysis_results = <<>>
  \/ /\ analysis_period = <<"Uploaded Docs">>
     /\ analysis_year = NowYear
  \/ \E q \in Quarters : analysis_period = FetchLabel(analysis_year, q)

\* what one step may do to the AnalysisSet, the label and the year
C13_Step ==
  /\ (pc = "idle" /\ pc' = "render") =>
       UNCHANGED <<all_analysis_results, analysis_period, analysis_year>>
  /\ (pc = "idle" /\ pc' = "fetch") =>
       /\ queue' # <<>>
       /\ all_analysis_results' = <<>>
       /\ analysis_period' = FetchLabel(form'.year, form'.quarter)
       /\ analysis_year' = form'.year
  /\ (pc = "idle" /\ pc' = "upload") =>
       /\ queue' # <<>>
       /\ all_analysis_results' = <<>>
       /\ analysis_period' = <<"Uploaded Docs">>
       /\ analysis_year' = NowYear
  /\ pc # "idle" =>
       /\ UNCHANGED <<analysis_period, analysis_year>>
       /\ all_analysis_results' # all_analysis_results =>
            /\ pc \in {"fetch", "upload"}
            /\ Truthy(last'.acquired)
            /\ LET k == IF pc = "fetch" THEN Head(queue) ELSE splitext0(Head(queue)) IN
               /\ HasKey(all_analysis_results', k)
               /\ \A i \in 1..Len(all_analysis_results') :
                    all_analysis_results'[i].k # k =>
                      /\ i <= Len(all_analysis_results)
                      /\ all_analysis_results'[i] = all_analysis_results[i]

\* C13: the AnalysisSet, the period label and the year always come from the
\* same action, the latest trigger with a non-empty input list: such a
\* trigger empties the set and writes the label and the year, a trigger with
\* an empty list changes none of the three, and a key enters the set only as
\* the item being processed, after its text acquisition returned a text.
C13_BatchStateConsistency == []C13_SameAction /\ [][C13_Step]_vars

\* a trigger with an empty list came after an upload batch and left its
\* results, label and year in place
C13_Witness ==
  /\ run = 2
  /\ pc = "idle"
  /\ fresh.press = {}
  /\ all_analysis_results # <<>>
  /\ analysis_period = <<"Uploaded Docs">>

====
